---- MODULE Spec2Model ----
(***************************************************************************)
(* Model of src/src/openrouter-provider.ts: the OpenRouter provider        *)
(* factory (createOpenRouter), the closures it returns (getHeaders,        *)
(* createChatModel, createCompletionModel, createLanguageModel, provider)  *)
(* and the default instance `openrouter`.                                  *)
(*                                                                         *)
(* JavaScript values are tagged records: undefined, strings, objects.      *)
(* URL strings are sequences of one-character strings, so that stripping   *)
(* a trailing slash and appending a path are computed; header names,       *)
(* keys, model ids are TLA+ strings (=== is string equality).              *)
(***************************************************************************)
EXTENDS Naturals, Sequences, FiniteSets, TLC

VARIABLES env, providers, model, result

vars == <<env, providers, model, result>>

-----------------------------------------------------------------------------
(* Bounds of the model *)

\* longest run of trailing slashes on a configured base URL
MaxSlashes == 2

-----------------------------------------------------------------------------
(* JavaScript values *)

undefined == [type |-> "undefined"]

Str(s) == [type |-> "string", val |-> s]

Obj(f) == [type |-> "object", val |-> f]

\* a ?? b
Nullish(a, b) == IF a.type = "undefined" THEN b ELSE a

Return(v, readEnv) == [status |-> "return", value |-> v, readEnv |-> readEnv]

Throw(e, readEnv) == [status |-> "throw", value |-> e, readEnv |-> readEnv]

-----------------------------------------------------------------------------
(* String literals of the source *)

LegacyModelId == "openai/gpt-3.5-turbo-instruct"

\* "https://openrouter.ai/api/v1"
DefaultBaseURL ==
    << "h", "t", "t", "p", "s", ":", "/", "/", "o", "p",
       "e", "n", "r", "o", "u", "t", "e", "r", ".", "a",
       "i", "/", "a", "p", "i", "/", "v", "1" >>

ChatProviderTag == "openrouter.chat"

CompletionProviderTag == "openrouter.completion"

AuthorizationHeader == "Authorization"

OrganizationHeader == "OpenRouter-Organization"

ProjectHeader == "OpenRouter-Project"

NewKeywordError == "Error: The OpenRouter model function cannot be called with the new keyword."

LoadAPIKeyError == "LoadAPIKeyError: OpenRouter API key is missing."

-----------------------------------------------------------------------------
(* Input sets *)

RECURSIVE Slashes(_)
Slashes(n) == IF n = 0 THEN <<>> ELSE <<"/">> \o Slashes(n - 1)

BaseURLs == {<<>>} \cup {<<"x">> \o Slashes(n) : n \in 0..MaxSlashes}

LegacyBaseUrls == {<<"y", "/">>}

Paths == {<<"/", "c">>}

ApiKeys == {"", "k1"}

EnvKeys == {"", "e1"}

Organizations == {"org1"}

Projects == {"proj1"}

ExtraHeaders ==
    { (AuthorizationHeader :> "custom"),
      (OrganizationHeader :> "o2") @@ (ProjectHeader :> "p2"),
      ("X-Title" :> "t") }

Compatibilities == {"strict", "compatible"}

Fetches == {"customFetch"}

ModelIds ==
    { LegacyModelId,
      "OpenAI/GPT-3.5-Turbo-Instruct",
      "openai/gpt-3.5-turbo-instruct ",
      "foo/bar" }

ModelSettings == {undefined, Obj("user" :> "u1")}

Opt(S) == {undefined} \cup {Str(s) : s \in S}

EmptySettings ==
    [ baseURL |-> undefined, baseUrl |-> undefined, apiKey |-> undefined,
      organization |-> undefined, project |-> undefined, headers |-> undefined,
      compatibility |-> undefined, fetch |-> undefined ]

\* Settings that vary the fields lines 100-105 and 127 read
EndpointSettings ==
    { [EmptySettings EXCEPT !.baseURL = u, !.baseUrl = l,
                            !.compatibility = c, !.fetch = f] :
        u \in Opt(BaseURLs), l \in Opt(LegacyBaseUrls),
        c \in Opt(Compatibilities), f \in Opt(Fetches) }

\* Settings that vary the fields getHeaders (lines 107-116) reads
HeaderSettings ==
    { [EmptySettings EXCEPT !.apiKey = k, !.organization = o,
                            !.project = j, !.headers = h] :
        k \in Opt(ApiKeys), o \in Opt(Organizations), j \in Opt(Projects),
        h \in {undefined} \cup {Obj(x) : x \in ExtraHeaders} }

ProviderSettings == EndpointSettings \cup HeaderSettings

ProviderIds == {"openrouter", "user"}

-----------------------------------------------------------------------------
(* Library helpers imported from @ai-sdk/provider-utils *)

\* withoutTrailingSlash(url) is url?.replace(/\/$/, ""): undefined stays
\* undefined, and one trailing slash, if there is one, is removed.
withoutTrailingSlash(url) ==
    IF url.type = "undefined" THEN undefined
    ELSE IF Len(url.val) > 0 /\ url.val[Len(url.val)] = "/"
         THEN Str(SubSeq(url.val, 1, Len(url.val) - 1))
         ELSE url

\* loadApiKey({apiKey, environmentVariableName, description}): the apiKey
\* argument when it is a string, otherwise process.env[name], and a
\* LoadAPIKeyError when that is unset. e is the variable's current value.
loadApiKey(apiKey, e) ==
    IF apiKey.type = "string" THEN Return(apiKey.val, FALSE)
    ELSE IF e.type = "undefined" THEN Throw(LoadAPIKeyError, TRUE)
    ELSE Return(e.val, TRUE)

-----------------------------------------------------------------------------
(* createOpenRouter and its closures *)

\* mutant: the trailing slash is left on
resolveBaseURL_NoStrip(options) ==
    Nullish(Nullish(options.baseURL, options.baseUrl), Str(DefaultBaseURL))

\* mutant: || in place of ??, so an empty baseURL falls through to baseUrl
resolveBaseURL_Or(options) ==
    LET Or(a, b) == IF a.type = "undefined" \/ a.val = <<>> THEN b ELSE a
    IN  Or(withoutTrailingSlash(Or(options.baseURL, options.baseUrl)),
           Str(DefaultBaseURL))

\* lines 100-102
resolveBaseURL(options) ==
    Nullish(withoutTrailingSlash(Nullish(options.baseURL, options.baseUrl)),
            Str(DefaultBaseURL))

\* mutant: the default instance's mode taken as the default of every provider
resolveCompatibility_DefaultStrict(options) ==
    Nullish(options.compatibility, Str("strict"))

\* line 105
resolveCompatibility(options) ==
    Nullish(options.compatibility, Str("compatible"))

\* The closure state of one createOpenRouter call. createOpenRouter is called
\* as a function (its declared signature), so new.target inside it, which
\* is what the arrow function createLanguageModel sees, is undefined.
createOpenRouter(options) ==
    [ options       |-> options,
      baseURL       |-> resolveBaseURL(options),
      compatibility |-> resolveCompatibility(options),
      newTarget     |-> undefined ]

\* mutant: the environment variable is preferred to options.apiKey
getHeaders_EnvFirst(p, e) ==
    LET key == loadApiKey(Nullish(e, p.options.apiKey), e)
        literal == (AuthorizationHeader :> Str("Bearer " \o key.value))
                   @@ (OrganizationHeader :> p.options.organization)
                   @@ (ProjectHeader :> p.options.project)
        spread == IF p.options.headers.type = "object"
                  THEN [n \in DOMAIN p.options.headers.val |->
                            Str(p.options.headers.val[n])]
                  ELSE <<>>
    IN  IF key.status = "throw" THEN key
        ELSE Return(spread @@ literal, key.readEnv)

\* mutant: options.headers spread first, the computed headers over it
getHeaders_SpreadFirst(p, e) ==
    LET key == loadApiKey(p.options.apiKey, e)
        literal == (AuthorizationHeader :> Str("Bearer " \o key.value))
                   @@ (OrganizationHeader :> p.options.organization)
                   @@ (ProjectHeader :> p.options.project)
        spread == IF p.options.headers.type = "object"
                  THEN [n \in DOMAIN p.options.headers.val |->
                            Str(p.options.headers.val[n])]
                  ELSE <<>>
    IN  IF key.status = "throw" THEN key
        ELSE Return(literal @@ spread, key.readEnv)

\* mutant: the organization and project keys left out when the setting is
\* absent
getHeaders_OmitUndefined(p, e) ==
    LET key == loadApiKey(p.options.apiKey, e)
        literal == (AuthorizationHeader :> Str("Bearer " \o key.value))
                   @@ (OrganizationHeader :> p.options.organization)
                   @@ (ProjectHeader :> p.options.project)
        kept == {n \in DOMAIN literal : literal[n].type # "undefined"}
        spread == IF p.options.headers.type = "object"
                  THEN [n \in DOMAIN p.options.headers.val |->
                            Str(p.options.headers.val[n])]
                  ELSE <<>>
    IN  IF key.status = "throw" THEN key
        ELSE Return(spread @@ [n \in kept |-> literal[n]], key.readEnv)

\* lines 107-116: the object literal, then the spread of options.headers
getHeaders(p, e) ==
    LET key == loadApiKey(p.options.apiKey, e)
        literal == (AuthorizationHeader :> Str("Bearer " \o key.value))
                   @@ (OrganizationHeader :> p.options.organization)
                   @@ (ProjectHeader :> p.options.project)
        spread == IF p.options.headers.type = "object"
                  THEN [n \in DOMAIN p.options.headers.val |->
                            Str(p.options.headers.val[n])]
                  ELSE <<>>
    IN  IF key.status = "throw" THEN key
        ELSE Return(spread @@ literal, key.readEnv)

\* the runtime config both model constructors receive
Config(id, p, tag) ==
    [ provider      |-> tag,
      baseURL       |-> p.baseURL,
      headers       |-> id,
      compatibility |-> p.compatibility,
      fetch         |-> p.options.fetch ]

\* mutant: headers: getHeaders() in place of headers: getHeaders, so the key
\* is resolved while the model is constructed
createChatModel_EagerHeaders(id, p, modelId, settings) ==
    LET h == getHeaders(p, env)
    IN  IF h.status = "throw" THEN h
        ELSE Return([ family   |-> "chat",
                      modelId  |-> modelId,
                      settings |-> Nullish(settings, Obj(<<>>)),
                      config   |-> Config(id, p, ChatProviderTag) ], h.readEnv)

\* mutant: chat special-cases the legacy id as the dispatch rule does
createChatModel_LegacyAsCompletion(id, p, modelId, settings) ==
    IF modelId = LegacyModelId
    THEN Return([ family   |-> "completion",
                  modelId  |-> modelId,
                  settings |-> Nullish(settings, Obj(<<>>)),
                  config   |-> Config(id, p, CompletionProviderTag) ], FALSE)
    ELSE Return([ family   |-> "chat",
                  modelId  |-> modelId,
                  settings |-> Nullish(settings, Obj(<<>>)),
                  config   |-> Config(id, p, ChatProviderTag) ], FALSE)

\* lines 118-128
createChatModel(id, p, modelId, settings) ==
    Return([ family   |-> "chat",
             modelId  |-> modelId,
             settings |-> Nullish(settings, Obj(<<>>)),
             config   |-> Config(id, p, ChatProviderTag) ], FALSE)

\* lines 130-140
createCompletionModel(id, p, modelId, settings) ==
    Return([ family   |-> "completion",
             modelId  |-> modelId,
             settings |-> Nullish(settings, Obj(<<>>)),
             config   |-> Config(id, p, CompletionProviderTag) ], FALSE)

\* mutant: the model id is trimmed and lower-cased before the comparison
createLanguageModel_Normalized(id, p, modelId, settings) ==
    LET normalized ==
            IF modelId \in {"OpenAI/GPT-3.5-Turbo-Instruct",
                            "openai/gpt-3.5-turbo-instruct "}
            THEN LegacyModelId ELSE modelId
    IN  IF p.newTarget.type # "undefined" THEN Throw(NewKeywordError, FALSE)
        ELSE IF normalized = LegacyModelId
             THEN createCompletionModel(id, p, modelId, settings)
             ELSE createChatModel(id, p, modelId, settings)

\* lines 142-160
createLanguageModel(id, p, modelId, settings) ==
    IF p.newTarget.type # "undefined" THEN Throw(NewKeywordError, FALSE)
    ELSE IF modelId = LegacyModelId
         THEN createCompletionModel(id, p, modelId, settings)
         ELSE createChatModel(id, p, modelId, settings)

\* lines 162-167: the body of provider, for a plain call and for a
\* construction call alike; a construction call evaluates to the object the
\* body returns.
provider(id, p, modelId, settings) ==
    createLanguageModel(id, p, modelId, settings)

\* line 124, 136
url(m, path) == Str(m.config.baseURL.val \o path)

-----------------------------------------------------------------------------
(* State machine *)

NoModel == [family |-> "none"]

Op(name, id, modelId, out) ==
    [ op |-> name, provider |-> id, modelId |-> modelId, out |-> out ]

\* module load: lines 179-181; OPENAI_API_KEY is not set yet
Init ==
    /\ env = undefined
    /\ providers = ("openrouter" :>
            createOpenRouter([EmptySettings EXCEPT !.compatibility = Str("strict")]))
    /\ model = NoModel
    /\ result = Op("load", "openrouter", "", Return(undefined, FALSE))

\* a caller creates its own provider
CreateOpenRouter ==
    /\ "user" \notin DOMAIN providers
    /\ \E options \in ProviderSettings :
          providers' = providers @@ ("user" :> createOpenRouter(options))
    /\ result' = Op("createOpenRouter", "user", "", Return(undefined, FALSE))
    /\ UNCHANGED <<env, model>>

\* the outcome of a model construction: the caller holds the handle it got
Construct(name, id, modelId, out) ==
    /\ result' = Op(name, id, modelId, out)
    /\ model' = IF out.status = "return" THEN out.value ELSE model
    /\ UNCHANGED <<env, providers>>

\* provider(modelId, settings)
Call ==
    \E id \in DOMAIN providers, modelId \in ModelIds, settings \in ModelSettings :
        Construct("call", id, modelId, provider(id, providers[id], modelId, settings))

\* new provider(modelId, settings)
CallNew ==
    \E id \in DOMAIN providers, modelId \in ModelIds, settings \in ModelSettings :
        Construct("new", id, modelId, provider(id, providers[id], modelId, settings))

\* provider.languageModel(modelId, settings): line 169
LanguageModel ==
    \E id \in DOMAIN providers, modelId \in ModelIds, settings \in ModelSettings :
        Construct("languageModel", id, modelId,
                  createLanguageModel(id, providers[id], modelId, settings))

\* provider.chat(modelId, settings): line 170
Chat ==
    \E id \in DOMAIN providers, modelId \in ModelIds, settings \in ModelSettings :
        Construct("chat", id, modelId,
                  createChatModel(id, providers[id], modelId, settings))

\* provider.completion(modelId, settings): line 171
Completion ==
    \E id \in DOMAIN providers, modelId \in ModelIds, settings \in ModelSettings :
        Construct("completion", id, modelId,
                  createCompletionModel(id, providers[id], modelId, settings))

\* the held model invokes config.headers()
Headers ==
    /\ model # NoModel
    /\ result' = Op("headers", model.config.headers, model.modelId,
                    getHeaders(providers[model.config.headers], env))
    /\ UNCHANGED <<env, providers, model>>

\* the held model invokes config.url({path})
Url ==
    /\ model # NoModel
    /\ \E path \in Paths :
          result' = Op("url", model.config.headers, model.modelId,
                       Return(url(model, path), FALSE))
    /\ UNCHANGED <<env, providers, model>>

\* the environment variable OPENAI_API_KEY is set, changed or unset
SetEnv ==
    /\ \E v \in Opt(EnvKeys) : v # env /\ env' = v
    /\ result' = Op("setenv", "", "", Return(undefined, FALSE))
    /\ UNCHANGED <<providers, model>>

Next ==
    \/ CreateOpenRouter
    \/ Call
    \/ CallNew
    \/ LanguageModel
    \/ Chat
    \/ Completion
    \/ Headers
    \/ Url
    \/ SetEnv

Spec == Init /\ [][Next]_vars

-----------------------------------------------------------------------------
(* Vocabulary of the properties *)

Constructors == {"call", "languageModel", "chat", "completion"}

Returned(name) == result.op = name /\ result.out.status = "return"

Threw(name, e) ==
    result.op = name /\ result.out.status = "throw" /\ result.out.value = e

\* the settings of the provider the last operation was about
Settings == providers[result.provider].options

EndsWithSlash(u) == Len(u) > 0 /\ u[Len(u)] = "/"

\* the key the header computation is to use: settings.apiKey, else the
\* environment variable
ExpectedKey == IF Settings.apiKey.type = "string" THEN Settings.apiKey.val ELSE env.val

Overrides(name) ==
    Settings.headers.type = "object" /\ name \in DOMAIN Settings.headers.val

-----------------------------------------------------------------------------
(* C1 *)

\* C1: the callable form and provider.languageModel both return, for every
\* modelId, a Completion model when modelId is exactly the legacy id and a
\* Chat model otherwise (also for ids differing in case or whitespace).
C1_Dispatch ==
    result.op \in {"call", "languageModel"} =>
        /\ result.out.status = "return"
        /\ result.out.value.modelId = result.modelId
        /\ result.out.value.family =
               IF result.modelId = "openai/gpt-3.5-turbo-instruct"
               THEN "completion" ELSE "chat"

C1_Witness ==
    /\ Returned("call")
    /\ result.modelId = "OpenAI/GPT-3.5-Turbo-Instruct"
    /\ result.out.value.family = "chat"

-----------------------------------------------------------------------------
(* C2 *)

\* C2: new provider(modelId, settings) fails with the new-keyword error for
\* every choice of arguments and never returns a model handle.
C2_NewAlwaysThrows ==
    result.op = "new" => Threw("new", NewKeywordError)

-----------------------------------------------------------------------------
(* C3 *)

\* C3 as stated: header computation throws the missing-key error when neither
\* settings.apiKey nor the environment variable is set, and otherwise
\* succeeds with Authorization = "Bearer " + key, whatever the other settings.
C3_AuthorizationIsBearerKey ==
    result.op = "headers" =>
        IF Settings.apiKey.type = "undefined" /\ env.type = "undefined"
        THEN Threw("headers", LoadAPIKeyError)
        ELSE /\ result.out.status = "return"
             /\ result.out.value[AuthorizationHeader] = Str("Bearer " \o ExpectedKey)

\* C3 amended: as above, except that an Authorization entry of
\* settings.headers, when there is one, is the Authorization value.
C3_AuthorizationUnlessOverridden ==
    result.op = "headers" =>
        IF Settings.apiKey.type = "undefined" /\ env.type = "undefined"
        THEN Threw("headers", LoadAPIKeyError)
        ELSE /\ result.out.status = "return"
             /\ result.out.value[AuthorizationHeader] =
                    IF Overrides(AuthorizationHeader)
                    THEN Str(Settings.headers.val[AuthorizationHeader])
                    ELSE Str("Bearer " \o ExpectedKey)

C3_Witness ==
    /\ Returned("headers")
    /\ Settings.apiKey = Str("k1")
    /\ env = Str("e1")
    /\ ~Overrides(AuthorizationHeader)
    /\ result.out.value[AuthorizationHeader] = Str("Bearer k1")

-----------------------------------------------------------------------------
(* C4 *)

\* C4: creating a provider and constructing a model (callable form,
\* languageModel, chat, completion) succeed without reading the environment
\* variable, key or no key; a header computation that takes the key from the
\* environment uses the variable's value at that moment.
C4_KeyResolvedAtHeaderTime ==
    /\ result.op \in Constructors \cup {"createOpenRouter"} =>
          result.out.status = "return" /\ ~result.out.readEnv
    /\ (result.op = "headers" /\ Settings.apiKey.type = "undefined") =>
          IF env.type = "undefined"
          THEN Threw("headers", LoadAPIKeyError)
          ELSE /\ result.out.status = "return"
               /\ result.out.readEnv
               /\ ~Overrides(AuthorizationHeader) =>
                     result.out.value[AuthorizationHeader] = Str("Bearer " \o env.val)

\* the default instance was created while the variable was unset, and its
\* model's headers carry the value set afterwards
C4_Witness ==
    /\ Returned("headers")
    /\ result.provider = "openrouter"
    /\ result.out.value[AuthorizationHeader] = Str("Bearer e1")

-----------------------------------------------------------------------------
(* C5 *)

\* C5: provider.chat always constructs a Chat model and provider.completion
\* always a Completion model, whatever the modelId; the two families get
\* different provider tags.
C5_FixedFamily ==
    /\ result.op = "chat" =>
          /\ result.out.status = "return"
          /\ result.out.value.family = "chat"
          /\ result.out.value.config.provider = "openrouter.chat"
    /\ result.op = "completion" =>
          /\ result.out.status = "return"
          /\ result.out.value.family = "completion"
          /\ result.out.value.config.provider = "openrouter.completion"
    /\ (model # NoModel /\ model.family = "completion") =>
          model.config.provider # "openrouter.chat"

C5_Witness ==
    /\ Returned("chat")
    /\ result.modelId = LegacyModelId
    /\ result.out.value.family = "chat"

-----------------------------------------------------------------------------
(* C6 *)

\* C6: the model a caller holds, and every model just constructed, carries
\* the compatibility mode and base URL its provider fixed at creation: the
\* mode is settings.compatibility, "compatible" when that is unset, and
\* "strict" for the default instance.
C6_ConfigFixedAtCreation ==
    /\ model # NoModel =>
          LET p == providers[model.config.headers]
          IN  /\ model.config.compatibility =
                     (IF p.options.compatibility.type = "undefined"
                      THEN Str("compatible") ELSE p.options.compatibility)
              /\ model.config.baseURL = p.baseURL
              /\ model.config.headers = "openrouter" =>
                     model.config.compatibility = Str("strict")
    /\ (result.op \in Constructors /\ result.out.status = "return") =>
          /\ model = result.out.value
          /\ model.config.headers = result.provider
    /\ result.op = "url" =>
          \E path \in Paths :
              result.out.value = Str(providers[result.provider].baseURL.val \o path)

\* a model of a provider created without a compatibility setting, still
\* held after the environment changed and its URL builder was used
C6_Witness ==
    /\ Returned("url")
    /\ model.config.headers = "user"
    /\ providers["user"].options.compatibility = undefined
    /\ model.config.compatibility = Str("compatible")
    /\ env # undefined

-----------------------------------------------------------------------------
(* C7 *)

\* C7 as stated: a settings.baseURL ending in one or more slashes resolves to
\* an endpoint with all of them stripped, so resolving the endpoint again
\* changes nothing and the URL builder puts no doubled slash before the path.
C7_AllTrailingSlashesStripped ==
    ("user" \in DOMAIN providers
        /\ providers["user"].options.baseURL.type = "string"
        /\ EndsWithSlash(providers["user"].options.baseURL.val)) =>
        /\ ~EndsWithSlash(providers["user"].baseURL.val)
        /\ withoutTrailingSlash(providers["user"].baseURL) = providers["user"].baseURL

\* the configured base URL ends in exactly one slash
EndsWithOneSlash(u) ==
    EndsWithSlash(u) /\ ~EndsWithSlash(SubSeq(u, 1, Len(u) - 1))

\* C7 amended: exactly one trailing slash is stripped; for a settings.baseURL
\* ending in exactly one slash the endpoint has no trailing slash, resolving
\* it again changes nothing, and the URL builder applied to a path beginning
\* with "/" yields the base URL without its slash followed by the path.
C7_OneTrailingSlashStripped ==
    ("user" \in DOMAIN providers
        /\ providers["user"].options.baseURL.type = "string"
        /\ EndsWithSlash(providers["user"].options.baseURL.val)) =>
        LET given == providers["user"].options.baseURL.val
            resolved == providers["user"].baseURL.val
        IN  /\ resolved \o <<"/">> = given
            /\ EndsWithOneSlash(given) =>
                  /\ ~EndsWithSlash(resolved)
                  /\ withoutTrailingSlash(Str(resolved)) = Str(resolved)
                  /\ (result.op = "url" /\ result.provider = "user") =>
                        \E path \in Paths :
                            /\ Head(path) = "/"
                            /\ result.out.value.val = given \o Tail(path)

\* baseURL "x/" and path "/c" give "x/c"
C7_Witness ==
    /\ Returned("url")
    /\ result.provider = "user"
    /\ providers["user"].options.baseURL = Str(<<"x", "/">>)
    /\ result.out.value = Str(<<"x", "/", "c">>)

-----------------------------------------------------------------------------
(* C8 *)

\* C8: every entry of settings.headers is in the computed headers with its
\* own value, also under the names Authorization, OpenRouter-Organization
\* and OpenRouter-Project, where it replaces the value derived from apiKey,
\* organization or project.
C8_ExtraHeadersWin ==
    (Returned("headers") /\ Settings.headers.type = "object") =>
        \A n \in DOMAIN Settings.headers.val :
            /\ n \in DOMAIN result.out.value
            /\ result.out.value[n] = Str(Settings.headers.val[n])

C8_Witness ==
    /\ Returned("headers")
    /\ Settings.apiKey = Str("k1")
    /\ Overrides(AuthorizationHeader)
    /\ result.out.value[AuthorizationHeader] = Str("custom")

-----------------------------------------------------------------------------
(* C9 *)

\* C9 as stated: the computed headers carry settings.organization and
\* settings.project verbatim when present and have no organization
\* (project) key when the setting is absent; with apiKey and organization
\* only, the keys are exactly Authorization and the organization header.
C9_AbsentSettingNoKey ==
    (Returned("headers") /\ Settings.headers.type = "undefined") =>
        /\ Settings.organization.type = "string" =>
              /\ OrganizationHeader \in DOMAIN result.out.value
              /\ result.out.value[OrganizationHeader] = Settings.organization
        /\ Settings.project.type = "string" =>
              /\ ProjectHeader \in DOMAIN result.out.value
              /\ result.out.value[ProjectHeader] = Settings.project
        /\ Settings.organization.type = "undefined" =>
              OrganizationHeader \notin DOMAIN result.out.value
        /\ Settings.project.type = "undefined" =>
              ProjectHeader \notin DOMAIN result.out.value

\* C9 amended: the computed headers always have the organization and the
\* project key; unless settings.headers has an entry of that name, the value
\* is the setting verbatim when it is present and undefined when it is
\* absent. Without settings.headers the keys are exactly the three.
C9_AbsentSettingUndefinedValue ==
    Returned("headers") =>
        /\ {AuthorizationHeader, OrganizationHeader, ProjectHeader}
               \subseteq DOMAIN result.out.value
        /\ ~Overrides(OrganizationHeader) =>
              result.out.value[OrganizationHeader] = Settings.organization
        /\ ~Overrides(ProjectHeader) =>
              result.out.value[ProjectHeader] = Settings.project
        /\ Settings.headers.type = "undefined" =>
              DOMAIN result.out.value =
                  {AuthorizationHeader, OrganizationHeader, ProjectHeader}

\* apiKey "k1" and organization "org1" only
C9_Witness ==
    /\ Returned("headers")
    /\ Settings.apiKey = Str("k1")
    /\ Settings.organization = Str("org1")
    /\ Settings.project = undefined
    /\ Settings.headers = undefined
    /\ result.out.value[AuthorizationHeader] = Str("Bearer k1")
    /\ result.out.value[OrganizationHeader] = Str("org1")
    /\ result.out.value[ProjectHeader] = undefined

-----------------------------------------------------------------------------
(* C10 *)

\* C10: the base endpoint is settings.baseURL when present, even with the
\* deprecated baseUrl present too, otherwise baseUrl when present, each with
\* its trailing slash stripped, otherwise the default endpoint
\* "https://openrouter.ai/api/v1", which has no trailing slash.
C10_BaseURLPrecedence ==
    \A id \in DOMAIN providers :
        LET o == providers[id].options
        IN  /\ o.baseURL.type = "string" =>
                  providers[id].baseURL = withoutTrailingSlash(o.baseURL)
            /\ (o.baseURL.type = "undefined" /\ o.baseUrl.type = "string") =>
                  providers[id].baseURL = withoutTrailingSlash(o.baseUrl)
            /\ (o.baseURL.type = "undefined" /\ o.baseUrl.type = "undefined") =>
                  /\ providers[id].baseURL = Str(DefaultBaseURL)
                  /\ ~EndsWithSlash(providers[id].baseURL.val)
                  /\ Len(providers[id].baseURL.val) = 28

\* both given: baseURL wins over the deprecated baseUrl
C10_Witness ==
    /\ "user" \in DOMAIN providers
    /\ providers["user"].options.baseURL = Str(<<"x">>)
    /\ providers["user"].options.baseUrl = Str(<<"y", "/">>)
    /\ providers["user"].baseURL = Str(<<"x">>)

====
